---- MODULE Spec2Model ----
(***************************************************************************)
(* Monte Carlo estimator of the price-dividend ratio                       *)
(* (day3/applications/asset_pricing/asset_pricing_simulation.ipynb).       *)
(*                                                                         *)
(* compute_prices_across_states runs one iteration per grid point in a     *)
(* numba prange; each iteration calls simulate_forward_sum_ave, which for  *)
(* m = 0..M-1 reseeds the generator with m, simulates a path of length N   *)
(* and averages the M path statistics.                                     *)
(*                                                                         *)
(* Numbers.  The code computes in float64.  The model computes in exact    *)
(* arithmetic: the latent state x, the shocks and the argument of exp are  *)
(* integers, and every value built from exp (A_path, A_prod, Lam, the      *)
(* mean) is its image in the prime field Z_101 under e |-> 2, a primitive  *)
(* root.  The map keeps +, *, exp(a+b) = exp(a)exp(b) and division by a    *)
(* path count M < 101, so every identity of exact arithmetic survives;     *)
(* floating-point rounding is not modelled.                                *)
(*                                                                         *)
(* Generator.  Inside nopython code np.random.seed and randn act on        *)
(* numba's own Mersenne Twister, of which every thread owns one state.     *)
(* The model keeps one generator state per thread; seeding overwrites the  *)
(* whole state, a draw reads the state and advances it.  The twister is    *)
(* replaced by a small full-period congruential generator and randn by a   *)
(* variate in {-1, 0, 1}.                                                  *)
(***************************************************************************)
EXTENDS Integers, Sequences, FiniteSets

\* ------------------------------------------------------------------ bounds
\* Longest grid, largest path count M and longest path N that are explored.
MaxK == 2
MaxM == 2
MaxN == 2
\* Most inner-loop iterations (grid points x paths x steps) of one call.
MaxWork == 8

\* The worker threads of the prange and the values a grid point may take.
Threads == {"t1", "t2"}
XVals == {1, 2}

\* ----------------------------------------------------------------- numbers
\* An element of np.empty(...) that has not been assigned yet.
Uninit == -2
\* The mean of an empty array, 0.0 / 0.
NaN == -1

Fld(a) == a % 101

\* 2^k in the field, by repeated squaring, for k >= 0.
RECURSIVE Pow2(_)
Pow2(k) ==
    IF k = 0 THEN 1
    ELSE LET h == Pow2(k \div 2)
         IN  (h * h * (IF k % 2 = 1 THEN 2 ELSE 1)) % 101

\* np.exp in the field: 2^k, the exponent taken modulo the group order.
Exp(k) == Pow2(k % 100)

\* 1 / a in the field, for 0 < a < 101.
FldInv(a) == CHOOSE b \in 1..100 : (a * b) % 101 = 1

RECURSIVE SeqSum(_)
SeqSum(s) == IF s = << >> THEN 0 ELSE Fld(Head(s) + SeqSum(Tail(s)))

\* Lam_vals.mean(): the sum of the entries over their number.
Mean(s) == IF Len(s) = 0 THEN NaN ELSE Fld(SeqSum(s) * FldInv(Len(s)))

\* --------------------------------------------------------------- generator
\* The state np.random.seed(m) leaves: a function of m alone.
SeedState(m) == (7 * m + 2) % 16

\* The state after one draw.
GenNext(g) == (5 * g + 3) % 16

\* The standard-normal variate a draw returns from state g.
Variate(g) == (g % 3) - 1

\* What the threads' generators may hold when the call begins: whatever
\* ran on each thread before.
GenInits ==
    { [w \in Threads |-> 1],
      [w \in Threads |-> IF w = "t1" THEN 12 ELSE 5] }

\* ------------------------------------------------------------- parameters
\* The keyword arguments of simulate_forward_sum_ave.  gamma is the code's
\* default; the others are integer stand-ins for the float defaults, with
\* rho not in {0, 1} so that x_t differs from x_{t-1}.
BaseParams ==
    [beta |-> 3, gamma |-> 2, rho |-> 2, mu_d |-> 1, mu_c |-> 1]

\* The volatilities (sigma, sigma_d, sigma_c): all zero, or all one.
VolSet == {<<0, 0, 0>>, <<1, 1, 1>>}

ParamSet ==
    { [beta |-> BaseParams.beta, gamma |-> BaseParams.gamma,
       rho |-> BaseParams.rho, sigma |-> v[1],
       mu_d |-> BaseParams.mu_d, sigma_d |-> v[2],
       mu_c |-> BaseParams.mu_c, sigma_c |-> v[3],
       N |-> nn, M |-> mm] : v \in VolSet, nn \in 0..MaxN, mm \in 0..MaxM }

Grids == UNION { [1..k -> XVals] : k \in 0..MaxK }

\* ------------------------------------------------------------------- state
VARIABLES
    params,   \* the model parameters of this call (read-only)
    x_vals,   \* the grid handed to compute_prices_across_states
    v_vals,   \* the output array
    main,     \* the calling thread: "call", "prange", "done", "raised"
    todo,     \* prange iterations (grid indices) not yet started
    loc,      \* per thread: the locals of its running iteration
    gen,      \* per thread: the state of its random generator
    seedlog,  \* history: per grid index, the seeds passed to np.random.seed
    gen_pre   \* history: per thread, its generator state when its current
              \* path began

vars == <<params, x_vals, v_vals, main, todo, loc, gen, seedlog, gen_pre>>

\* np.empty(k)
Empty(k) == [j \in 1..k |-> Uninit]

\* The locals of a thread that runs no iteration.
IdleLocals ==
    [pc |-> "idle", i |-> 0, x0 |-> 0, m |-> 0, t |-> 0, n |-> 0, x |-> 0,
     eta_c |-> 0, eta_d |-> 0, A_path |-> << >>, A_prod |-> 0, Lam |-> 0,
     Lam_vals |-> << >>]

Init ==
    /\ params \in ParamSet
    /\ x_vals \in Grids
    /\ Len(x_vals) * params.M * params.N <= MaxWork
    /\ v_vals = << >>
    /\ main = "call"
    /\ todo = {}
    /\ loc = [w \in Threads |-> IdleLocals]
    /\ gen \in GenInits
    /\ seedlog = << >>
    /\ gen_pre = gen

\* ---------------------------------------------- compute_prices_across_states
\* Variant: the output is allocated one element too long.
AllocOneMore(xs) == Empty(Len(xs) + 1)

\* n = len(x_vals); v_vals = np.empty(n); the prange is entered.
Alloc(xs) == Empty(Len(xs))

Start ==
    /\ main = "call"
    /\ v_vals' = Alloc(x_vals)
    /\ todo' = 1..Len(x_vals)
    /\ seedlog' = [j \in 1..Len(x_vals) |-> << >>]
    /\ main' = "prange"
    /\ UNCHANGED <<params, x_vals, loc, gen, gen_pre>>

\* The first statement an iteration reaches after Lam_vals = np.empty(M).
AfterEntry == IF params.M > 0 THEN "seed" ELSE "mean"

\* A free thread takes iteration i and calls simulate_forward_sum_ave
\* with x0 = x_vals[i]: Lam_vals = np.empty(M), m = 0.
Dispatch(w, i) ==
    /\ main = "prange"
    /\ loc[w].pc = "idle"
    /\ i \in todo
    /\ todo' = todo \ {i}
    /\ loc' = [loc EXCEPT ![w] =
                 [IdleLocals EXCEPT !.pc = AfterEntry, !.i = i,
                                    !.x0 = x_vals[i],
                                    !.Lam_vals = Empty(params.M)]]
    /\ UNCHANGED <<params, x_vals, v_vals, main, gen, seedlog, gen_pre>>

\* ------------------------------------------------- simulate_forward_sum_ave
\* Variant: seeding is skipped; the stream goes on from where the thread's
\* previous work left it.
GenSeedSkipped(g, w, m) == g

\* Variant: seeding mixes the seed into the state instead of replacing it.
GenSeedMixed(g, w, m) == [g EXCEPT ![w] = (g[w] + SeedState(m)) % 16]

\* Variant: one generator state shared by all threads.
GenSeedShared(g, w, m) == [v \in Threads |-> SeedState(m)]

\* np.random.seed(m) on thread w: the whole state of w's generator is
\* replaced, no other thread's generator is touched.
GenSeed(g, w, m) == [g EXCEPT ![w] = SeedState(m)]

\* Variant: a draw advances the generator of every thread.
GenDrawShared(g, w) == [v \in Threads |-> GenNext(g[v])]

\* randn() on thread w advances w's generator.
GenDraw(g, w) == [g EXCEPT ![w] = GenNext(g[w])]

\* t1 = -gamma*mu_c + mu_d + (1 - gamma)*x;
\* t2 = -gamma*sigma_c*eta_c + sigma_d*eta_d;  beta * np.exp(t1 + t2)
AFactor(p, x, eta_c, eta_d) ==
    LET t1 == (0 - p.gamma) * p.mu_c + p.mu_d + (1 - p.gamma) * x
        t2 == (0 - p.gamma) * p.sigma_c * eta_c + p.sigma_d * eta_d
    IN  Fld(p.beta * Exp(t1 + t2))

\* Variant: the persistence rho is left out of the state update.
NextXNoRho(p, x, xi) == x + p.sigma * xi

\* rho * x + sigma * randn(), xi being the variate drawn
NextX(p, x, xi) == p.rho * x + p.sigma * xi

\* Variant: every path of a batch is seeded alike.
PathSeedConstant(m) == 0

\* The seed of path m: np.random.seed(m).
PathSeed(m) == m

\* Where the path goes after x = x0: into the t loop, or past it.
AfterSeed == IF params.N > 0 THEN "eta_c" ELSE "init_prod"

\* np.random.seed(m); A_path = np.empty(N); x = x0
Seed(w) ==
    /\ main = "prange"
    /\ loc[w].pc = "seed"
    /\ gen' = GenSeed(gen, w, PathSeed(loc[w].m))
    /\ gen_pre' = [gen_pre EXCEPT ![w] = gen[w]]
    /\ seedlog' = [seedlog EXCEPT ![loc[w].i] = Append(@, PathSeed(loc[w].m))]
    /\ loc' = [loc EXCEPT ![w].A_path = Empty(params.N),
                          ![w].x = loc[w].x0,
                          ![w].t = 0,
                          ![w].pc = AfterSeed]
    /\ UNCHANGED <<params, x_vals, v_vals, main, todo>>

\* eta_c = randn()
DrawEtaC(w) ==
    /\ main = "prange"
    /\ loc[w].pc = "eta_c"
    /\ loc' = [loc EXCEPT ![w].eta_c = Variate(gen[w]), ![w].pc = "eta_d"]
    /\ gen' = GenDraw(gen, w)
    /\ UNCHANGED <<params, x_vals, v_vals, main, todo, seedlog, gen_pre>>

\* eta_d = randn()
DrawEtaD(w) ==
    /\ main = "prange"
    /\ loc[w].pc = "eta_d"
    /\ loc' = [loc EXCEPT ![w].eta_d = Variate(gen[w]), ![w].pc = "calc_A"]
    /\ gen' = GenDraw(gen, w)
    /\ UNCHANGED <<params, x_vals, v_vals, main, todo, seedlog, gen_pre>>

\* Variant: the factor is computed from the state the update is about to
\* produce (x_t) instead of the state carried over (x_{t-1}).
CalcAFromUpdatedState(w) ==
    /\ main = "prange"
    /\ loc[w].pc = "calc_A"
    /\ loc' = [loc EXCEPT
                 ![w].A_path[loc[w].t + 1] =
                     AFactor(params,
                             NextX(params, loc[w].x, Variate(gen[w])),
                             loc[w].eta_c, loc[w].eta_d),
                 ![w].pc = "update_x"]
    /\ UNCHANGED <<params, x_vals, v_vals, main, todo, gen, seedlog, gen_pre>>

\* A_path[t] = beta * np.exp(t1 + t2), from the x of before the update
CalcA(w) ==
    /\ main = "prange"
    /\ loc[w].pc = "calc_A"
    /\ loc' = [loc EXCEPT
                 ![w].A_path[loc[w].t + 1] =
                     AFactor(params, loc[w].x, loc[w].eta_c, loc[w].eta_d),
                 ![w].pc = "update_x"]
    /\ UNCHANGED <<params, x_vals, v_vals, main, todo, gen, seedlog, gen_pre>>

\* x = rho * x + sigma * randn(); the t loop goes round or ends
UpdateX(w) ==
    /\ main = "prange"
    /\ loc[w].pc = "update_x"
    /\ loc' = [loc EXCEPT
                 ![w].x = NextX(params, loc[w].x, Variate(gen[w])),
                 ![w].t = loc[w].t + 1,
                 ![w].pc = IF loc[w].t + 1 < params.N
                           THEN "eta_c" ELSE "init_prod"]
    /\ gen' = GenDraw(gen, w)
    /\ UNCHANGED <<params, x_vals, v_vals, main, todo, seedlog, gen_pre>>

\* Variant: the statistic is not reset; it goes on from the previous path.
InitProdKeepsLam(w) ==
    /\ main = "prange"
    /\ loc[w].pc = "init_prod"
    /\ loc' = [loc EXCEPT ![w].A_prod = 1, ![w].n = 0,
                          ![w].pc = IF params.N > 0
                                    THEN "accum" ELSE "record"]
    /\ UNCHANGED <<params, x_vals, v_vals, main, todo, gen, seedlog, gen_pre>>

\* A_prod = 1.0; Lam = 0.0
InitProd(w) ==
    /\ main = "prange"
    /\ loc[w].pc = "init_prod"
    /\ loc' = [loc EXCEPT ![w].A_prod = 1, ![w].Lam = 0, ![w].n = 0,
                          ![w].pc = IF params.N > 0
                                    THEN "accum" ELSE "record"]
    /\ UNCHANGED <<params, x_vals, v_vals, main, todo, gen, seedlog, gen_pre>>

\* A_prod *= A_path[n]; Lam += A_prod
Accum(w) ==
    /\ main = "prange"
    /\ loc[w].pc = "accum"
    /\ LET prod == Fld(loc[w].A_prod * loc[w].A_path[loc[w].n + 1])
       IN  loc' = [loc EXCEPT
                     ![w].A_prod = prod,
                     ![w].Lam = Fld(loc[w].Lam + prod),
                     ![w].n = loc[w].n + 1,
                     ![w].pc = IF loc[w].n + 1 < params.N
                               THEN "accum" ELSE "record"]
    /\ UNCHANGED <<params, x_vals, v_vals, main, todo, gen, seedlog, gen_pre>>

\* Lam_vals[m] = Lam; the m loop goes round or ends
Record(w) ==
    /\ main = "prange"
    /\ loc[w].pc = "record"
    /\ loc' = [loc EXCEPT
                 ![w].Lam_vals[loc[w].m + 1] = loc[w].Lam,
                 ![w].m = loc[w].m + 1,
                 ![w].pc = IF loc[w].m + 1 < params.M
                           THEN "seed" ELSE "mean"]
    /\ UNCHANGED <<params, x_vals, v_vals, main, todo, gen, seedlog, gen_pre>>

\* Variant: results are placed in the order in which iterations complete.
SlotByCompletion(i) ==
    Cardinality({j \in DOMAIN v_vals : v_vals[j] # Uninit}) + 1

\* The slot of v_vals that iteration i assigns.
Slot(i) == i

\* return Lam_vals.mean(), and the caller's v_vals[i] = ...
ReturnMean(w) ==
    /\ main = "prange"
    /\ loc[w].pc = "mean"
    /\ v_vals' = [v_vals EXCEPT ![Slot(loc[w].i)] = Mean(loc[w].Lam_vals)]
    /\ loc' = [loc EXCEPT ![w] = IdleLocals]
    /\ UNCHANGED <<params, x_vals, main, todo, gen, seedlog, gen_pre>>

\* Lam_vals.mean() of an empty array divides 0.0 by the size 0: under
\* numba's Python error model the division raises ZeroDivisionError, under
\* the NumPy one it yields nan (ReturnMean).
RaiseZeroDiv(w) ==
    /\ main = "prange"
    /\ loc[w].pc = "mean"
    /\ Len(loc[w].Lam_vals) = 0
    /\ main' = "raised"
    /\ UNCHANGED <<params, x_vals, v_vals, todo, loc, gen, seedlog, gen_pre>>

\* Every iteration has run: return v_vals
Finish ==
    /\ main = "prange"
    /\ todo = {}
    /\ \A w \in Threads : loc[w].pc = "idle"
    /\ main' = "done"
    /\ UNCHANGED <<params, x_vals, v_vals, todo, loc, gen, seedlog, gen_pre>>

Next ==
    \/ Start
    \/ \E w \in Threads, i \in 1..MaxK : Dispatch(w, i)
    \/ \E w \in Threads : Seed(w)
    \/ \E w \in Threads : DrawEtaC(w)
    \/ \E w \in Threads : DrawEtaD(w)
    \/ \E w \in Threads : CalcA(w)
    \/ \E w \in Threads : UpdateX(w)
    \/ \E w \in Threads : InitProd(w)
    \/ \E w \in Threads : Accum(w)
    \/ \E w \in Threads : Record(w)
    \/ \E w \in Threads : ReturnMean(w)
    \/ \E w \in Threads : RaiseZeroDiv(w)
    \/ Finish

Spec == Init /\ [][Next]_vars

\* ------------------------------------------------ the estimator in closed form
\* The generator state k draws after np.random.seed(seed).
RECURSIVE StreamState(_, _)
StreamState(seed, k) ==
    IF k = 0 THEN SeedState(seed) ELSE GenNext(StreamState(seed, k - 1))

\* The (k+1)-th variate of the stream of seed.
Draw(seed, k) == Variate(StreamState(seed, k))

\* X_t of the path of seed: X_0 = x0, X_t = rho X_{t-1} + sigma xi_t, xi_t
\* the third variate of iteration t.
RECURSIVE PathX(_, _, _, _)
PathX(p, x0, seed, t) ==
    IF t = 0 THEN x0
    ELSE NextX(p, PathX(p, x0, seed, t - 1), Draw(seed, 3 * (t - 1) + 2))

\* A_t of the path, t in 1..N: from X_{t-1} and the first two variates of
\* iteration t.
PathA(p, x0, seed, t) ==
    AFactor(p, PathX(p, x0, seed, t - 1),
            Draw(seed, 3 * (t - 1)), Draw(seed, 3 * (t - 1) + 1))

\* prod_{i=1}^n A_i
RECURSIVE PathProd(_, _, _, _)
PathProd(p, x0, seed, n) ==
    IF n = 0 THEN 1
    ELSE Fld(PathProd(p, x0, seed, n - 1) * PathA(p, x0, seed, n))

\* sum_{n=1}^k prod_{i=1}^n A_i
RECURSIVE PathSum(_, _, _, _)
PathSum(p, x0, seed, k) ==
    IF k = 0 THEN 0
    ELSE Fld(PathSum(p, x0, seed, k - 1) + PathProd(p, x0, seed, k))

\* Lambda(x, N, m)
PathStat(p, x0, seed) == PathSum(p, x0, seed, p.N)

\* v^(x, M, N): the mean of Lambda(x, N, m) over the seeds 0..M-1
Estimate(p, x0) == Mean([k \in 1..p.M |-> PathStat(p, x0, k - 1)])

\* ------------------------------------------------------------ positions
\* The statements of one path, from after its seeding to its recording.
PathPcs ==
    {"eta_c", "eta_d", "calc_A", "update_x", "init_prod", "accum", "record"}

InPath(w) == loc[w].pc \in PathPcs

\* The variates thread w has drawn since it seeded its current path.
DrawsDone(w) ==
    3 * loc[w].t
    + (CASE loc[w].pc = "eta_d" -> 1
         [] loc[w].pc \in {"calc_A", "update_x"} -> 2
         [] OTHER -> 0)

Written(i) == i \in DOMAIN v_vals /\ v_vals[i] # Uninit

\* ------------------------------------------------------------------ claims
\* C1: for every grid and every interleaving of the workers, the output has
\* the length of the grid; slot j is assigned only by the iteration that
\* handles index j, which was called with x0 = x_vals[j]; and at return
\* every slot i holds the estimate computed from x_vals[i].
C1_OutputAlignedWithGrid ==
    /\ [](main # "call" => Len(v_vals) = Len(x_vals))
    /\ [][\A j \in DOMAIN v_vals :
            v_vals'[j] # v_vals[j] =>
                \E w \in Threads :
                    /\ loc[w].pc = "mean" /\ loc'[w].pc = "idle"
                    /\ loc[w].i = j
                    /\ loc[w].x0 = x_vals[j]]_vars
    /\ [](main = "done" =>
            \A i \in 1..Len(x_vals) :
                Written(i) /\ v_vals[i] = Estimate(params, x_vals[i]))

\* C1 witness: the iteration of index 2 has stored its result while the
\* iteration of index 1, on a different grid value, is still simulating.
C1_Witness ==
    /\ Len(x_vals) = 2 /\ x_vals[1] # x_vals[2]
    /\ params.M >= 1 /\ params.N >= 1
    /\ Written(2) /\ ~Written(1)
    /\ v_vals[2] # Estimate(params, x_vals[1])
    /\ \E w \in Threads : loc[w].i = 1 /\ InPath(w)

\* C2: with M < 1 or N < 1 no path simulation is performed (nothing is
\* seeded) and the call never returns a value for a grid point.
C2_InvalidConfigFailsFast ==
    (params.M < 1 \/ params.N < 1) =>
        /\ \A j \in DOMAIN seedlog : seedlog[j] = << >>
        /\ main = "done" => v_vals = << >>

\* C3: on an empty grid the call returns an empty result, raises nothing,
\* and no thread seeds, draws or runs an iteration.
C3_EmptyGrid ==
    /\ [](Len(x_vals) = 0 => main # "raised")
    /\ [](Len(x_vals) = 0 /\ main = "done" => v_vals = << >>)
    /\ [][Len(x_vals) = 0 => UNCHANGED <<gen, loc, seedlog>>]_vars

\* C3 witness: the call on an empty grid has returned.
C3_Witness ==
    /\ Len(x_vals) = 0 /\ main = "done" /\ v_vals = << >>
    /\ params.M >= 1 /\ params.N >= 1

\* C4: from the seeding of a path to the last of its draws the generator
\* it draws from holds exactly the state its seed and its own draws give
\* (so every variate it consumes is the one its seed determines), and a
\* thread's generator changes only in a seeding or a draw of that thread.
C4_PrivateStream ==
    /\ [](\A w \in Threads :
            InPath(w) =>
                gen[w] = StreamState(PathSeed(loc[w].m), DrawsDone(w)))
    /\ [][\A w \in Threads :
            gen'[w] # gen[w] =>
                /\ loc[w].pc \in {"seed", "eta_c", "eta_d", "update_x"}
                /\ loc'[w].pc # loc[w].pc]_vars

\* C4 witness: two threads are inside paths of different seeds at once,
\* each having drawn from its stream.
C4_Witness ==
    \E w1, w2 \in Threads :
        /\ w1 # w2 /\ InPath(w1) /\ InPath(w2)
        /\ loc[w1].m # loc[w2].m
        /\ DrawsDone(w1) >= 2 /\ DrawsDone(w2) >= 1
        /\ gen[w1] # gen[w2]

C6_PathStatisticDeterministic ==
    /\ \A w \in Threads :
         /\ loc[w].pc = "record" =>
                loc[w].Lam = PathStat(params, loc[w].x0, PathSeed(loc[w].m))
         /\ \A k \in 1..loc[w].m :
                loc[w].Lam_vals[k] = PathStat(params, loc[w].x0, k - 1)
    /\ \A w1, w2 \in Threads :
         (/\ loc[w1].pc = "record" /\ loc[w2].pc = "record"
          /\ loc[w1].x0 = loc[w2].x0 /\ loc[w1].m = loc[w2].m)
             => loc[w1].Lam = loc[w2].Lam

\* C6 witness: two threads have simulated the same (x0, seed) with noise
\* switched on, having begun the path from different generator states.
C6_Witness ==
    \E w1, w2 \in Threads :
        /\ w1 # w2
        /\ loc[w1].pc = "record" /\ loc[w2].pc = "record"
        /\ loc[w1].x0 = loc[w2].x0 /\ loc[w1].m = loc[w2].m
        /\ gen_pre[w1] # gen_pre[w2]
        /\ params.sigma # 0 /\ params.N >= 2
        /\ loc[w1].Lam = loc[w2].Lam

\* C7: the value in slot i is the estimate of x_vals[i] under the
\* parameters, a function of nothing else: not of the other grid points,
\* their number, the thread or the schedule; slots of equal grid values
\* hold equal estimates.
C7_SlotDependsOnOwnPointOnly ==
    /\ \A i \in DOMAIN v_vals :
         Written(i) => v_vals[i] = Estimate(params, x_vals[i])
    /\ \A i, j \in DOMAIN v_vals :
         (Written(i) /\ Written(j) /\ x_vals[i] = x_vals[j])
             => v_vals[i] = v_vals[j]

\* C7 witness: the call has returned on a grid that holds the same value
\* twice, estimated with noise by M >= 2 paths of N >= 2 steps on threads
\* whose generators began their last paths in different states.
C7_Witness ==
    /\ main = "done" /\ Len(x_vals) = 2 /\ x_vals[1] = x_vals[2]
    /\ params.M >= 2 /\ params.N >= 2 /\ params.sigma # 0
    /\ v_vals[1] = v_vals[2]
    /\ gen_pre["t1"] # gen_pre["t2"]

\* The closed form of the degenerate-shock boundary, written from its
\* statement: x_t = rho x_{t-1}, and the sum over n = 1..N of the product
\* over t = 1..n of beta exp(-gamma mu_c + mu_d + (1 - gamma) x_{t-1}).
RECURSIVE DetX(_, _, _)
DetX(p, x0, t) == IF t = 0 THEN x0 ELSE p.rho * DetX(p, x0, t - 1)

DetFactor(p, x0, t) ==
    Fld(p.beta * Exp((0 - p.gamma) * p.mu_c + p.mu_d
                     + (1 - p.gamma) * DetX(p, x0, t - 1)))

RECURSIVE DetProd(_, _, _)
DetProd(p, x0, n) ==
    IF n = 0 THEN 1 ELSE Fld(DetProd(p, x0, n - 1) * DetFactor(p, x0, n))

RECURSIVE DetSum(_, _, _)
DetSum(p, x0, k) ==
    IF k = 0 THEN 0 ELSE Fld(DetSum(p, x0, k - 1) + DetProd(p, x0, k))

ClosedForm(p, x0) == DetSum(p, x0, p.N)

ZeroVol == params.sigma = 0 /\ params.sigma_c = 0 /\ params.sigma_d = 0

\* C8: with sigma = sigma_c = sigma_d = 0 every path statistic, for every
\* x0 and every seed, is the closed form, and so is the mean over the M >= 1
\* paths that is stored for the grid point.
C8_ZeroVolatilityClosedForm ==
    ZeroVol =>
        /\ \A w \in Threads :
             /\ loc[w].pc = "record" =>
                    loc[w].Lam = ClosedForm(params, loc[w].x0)
             /\ \A k \in 1..loc[w].m :
                    loc[w].Lam_vals[k] = ClosedForm(params, loc[w].x0)
        /\ \A i \in DOMAIN v_vals :
             (Written(i) /\ params.M >= 1) =>
                 v_vals[i] = ClosedForm(params, x_vals[i])

\* C8 witness: without volatility, the call has returned from a grid of two
\* different values, each estimated by M >= 2 paths of N >= 2 steps, and
\* the two closed forms differ.
C8_Witness ==
    /\ ZeroVol /\ main = "done"
    /\ Len(x_vals) = 2 /\ x_vals[1] # x_vals[2]
    /\ params.M >= 2 /\ params.N >= 2
    /\ v_vals[1] = ClosedForm(params, x_vals[1])
    /\ v_vals[1] # v_vals[2]

\* The seeds 0..M-1 in the order the m loop uses them.
SeedsOfBatch == [k \in 1..params.M |-> k - 1]

\* C9: the iteration of grid index i is called with x0 = x_vals[i] and
\* seeds its generator once per path, with the seeds 0, 1, ..., M-1 in
\* turn; when it stores its result it has run exactly those M paths, each
\* seed once, and the value stored is the arithmetic mean of exactly the M
\* statistics of those paths from x_vals[i].
C9_BatchOfMDistinctSeeds ==
    /\ \A w \in Threads :
         loc[w].pc # "idle" =>
             /\ loc[w].x0 = x_vals[loc[w].i]
             /\ seedlog[loc[w].i] =
                    [k \in 1..Len(seedlog[loc[w].i]) |-> k - 1]
             /\ Len(seedlog[loc[w].i]) =
                    loc[w].m + (IF InPath(w) THEN 1 ELSE 0)
             /\ loc[w].pc = "mean" =>
                    /\ loc[w].m = params.M
                    /\ Len(loc[w].Lam_vals) = params.M
    /\ \A i \in DOMAIN v_vals :
         Written(i) =>
             /\ seedlog[i] = SeedsOfBatch
             /\ \A j, k \in 1..Len(seedlog[i]) :
                    j # k => seedlog[i][j] # seedlog[i][k]
             /\ v_vals[i] =
                    Mean([k \in 1..params.M |->
                            PathStat(params, x_vals[i], seedlog[i][k])])

\* C9 witness: a grid point has received the mean of M = 2 or more paths
\* with noise, whose statistics differ from one seed to the other.
C9_Witness ==
    \E i \in DOMAIN v_vals :
        /\ Written(i) /\ params.M >= 2 /\ params.N >= 1
        /\ Len(seedlog[i]) = params.M
        /\ PathStat(params, x_vals[i], 0) # PathStat(params, x_vals[i], 1)

\* C10: in iteration t of a path (t from 1; loc.t = t - 1 counts the
\* iterations completed), eta_c is the first, eta_d the second and xi the
\* third variate the iteration draws; A_t is computed from x_{t-1}, the
\* state as it stands before the iteration's update (x0 for t = 1); and the
\* state becomes rho x_{t-1} + sigma xi only after A_t has been stored.
C10_IterationOrder ==
    \A w \in Threads :
        InPath(w) =>
            LET l == loc[w]
                sd == PathSeed(l.m)
            IN  /\ l.x = PathX(params, l.x0, sd, l.t)
                /\ l.pc \in {"eta_d", "calc_A", "update_x"} =>
                       l.eta_c = Draw(sd, 3 * l.t)
                /\ l.pc \in {"calc_A", "update_x"} =>
                       l.eta_d = Draw(sd, 3 * l.t + 1)
                /\ l.pc = "update_x" =>
                       /\ l.A_path[l.t + 1] =
                              AFactor(params, l.x, l.eta_c, l.eta_d)
                       /\ Variate(gen[w]) = Draw(sd, 3 * l.t + 2)
                /\ \A j \in 1..l.t :
                       l.A_path[j] = PathA(params, l.x0, sd, j)
                /\ \A j \in 1..Len(l.A_path) :
                       j > l.t + (IF l.pc = "update_x" THEN 1 ELSE 0)
                           => l.A_path[j] = Uninit

\* C10 witness: in the second iteration of a path with noise, A_2 has been
\* stored and the state not yet updated; A_2 differs from what the updated
\* state would have given, and the two shocks drawn differ.
C10_Witness ==
    \E w \in Threads :
        /\ loc[w].pc = "update_x" /\ loc[w].t = 1
        /\ params.sigma # 0
        /\ loc[w].x # loc[w].x0
        /\ loc[w].eta_c # loc[w].eta_d
        /\ loc[w].A_path[2] #
               AFactor(params,
                       NextX(params, loc[w].x, Variate(gen[w])),
                       loc[w].eta_c, loc[w].eta_d)

\* The single loop of the path simulator as specified: P = 1, Lam = 0 and
\* x = x0 before the loop; iteration t draws eta_c and eta_d, computes A_t
\* from the x carried over, draws xi and updates x, then P <- P * A_t and
\* Lam <- Lam + P.  The state after t iterations.
RECURSIVE SingleLoop(_, _, _, _)
SingleLoop(p, x0, seed, t) ==
    IF t = 0 THEN [x |-> x0, P |-> 1, Lam |-> 0]
    ELSE LET s == SingleLoop(p, x0, seed, t - 1)
             eta_c == Draw(seed, 3 * (t - 1))
             eta_d == Draw(seed, 3 * (t - 1) + 1)
             A == Fld(p.beta * Exp((0 - p.gamma) * p.mu_c + p.mu_d
                                   + (1 - p.gamma) * s.x
                                   - p.gamma * p.sigma_c * eta_c
                                   + p.sigma_d * eta_d))
             xi == Draw(seed, 3 * (t - 1) + 2)
             P == Fld(s.P * A)
         IN  [x |-> p.rho * s.x + p.sigma * xi, P |-> P,
              Lam |-> Fld(s.Lam + P)]

\* prod_{i=1}^n A[i] and sum_{n=1}^k prod_{i=1}^n A[i] of a stored path A
RECURSIVE ProdOf(_, _)
ProdOf(A, n) == IF n = 0 THEN 1 ELSE Fld(ProdOf(A, n - 1) * A[n])

RECURSIVE SumOfProds(_, _)
SumOfProds(A, k) ==
    IF k = 0 THEN 0 ELSE Fld(SumOfProds(A, k - 1) + ProdOf(A, k))

\* C11: for every path, the second pass over the stored A_1..A_N starts
\* from A_prod = 1 and Lam = 0 whatever the previous path left, after n
\* steps holds the P and the Lam the single loop holds after n iterations,
\* and ends with the Lam of the single loop after N iterations, which is
\* the sum over n = 1..N of the product of A_1..A_n.
C11_TwoPassEqualsSingleLoop ==
    \A w \in Threads :
        LET l == loc[w]
            sd == PathSeed(l.m)
        IN  /\ l.pc = "accum" =>
                   /\ l.A_prod = SingleLoop(params, l.x0, sd, l.n).P
                   /\ l.Lam = SingleLoop(params, l.x0, sd, l.n).Lam
                   /\ l.A_prod = ProdOf(l.A_path, l.n)
                   /\ l.Lam = SumOfProds(l.A_path, l.n)
            /\ l.pc = "record" =>
                   /\ l.Lam = SingleLoop(params, l.x0, sd, params.N).Lam
                   /\ l.Lam = SumOfProds(l.A_path, params.N)
                   /\ l.x = SingleLoop(params, l.x0, sd, params.N).x
                   /\ \A j \in 1..params.N : l.A_path[j] # Uninit

\* C11 witness: the second path of a batch, with noise and N >= 2, is about
\* to record a Lam that differs from its last product, the first path
\* having left a nonzero statistic behind.
C11_Witness ==
    \E w \in Threads :
        /\ loc[w].pc = "record" /\ loc[w].m >= 1
        /\ params.N >= 2 /\ params.sigma # 0
        /\ loc[w].Lam_vals[1] # 0
        /\ loc[w].Lam # loc[w].A_prod
        /\ loc[w].Lam = SingleLoop(params, loc[w].x0, PathSeed(loc[w].m),
                                   params.N).Lam

====
